---- MODULE Spec2Model ----
(***************************************************************************)
(* Metro map planning: the SAT encoder (encoder.py, GeneralSATEncoder),    *)
(* the solver's answer, and the decoder (decoder.py, SATDecoder).          *)
(*                                                                         *)
(* A problem is read, create_variables and encode_constraints build the    *)
(* variable map and the clause list, an external solver answers UNSAT or   *)
(* with a truth assignment satisfying every clause, and the decoder walks  *)
(* the assignment back into one move sequence per line and writes them.    *)
(***************************************************************************)
EXTENDS Integers, Sequences, FiniteSets, TLC

VARIABLES
    pc,                 \* position in the encode / solve / decode pipeline
    problem,            \* MetroProblem: scenario, N, M, K, J, P, lines, popular_cells
    var_counter,        \* GeneralSATEncoder.var_counter
    clauses,            \* GeneralSATEncoder.clauses (list of lists of signed ids)
    var_map,            \* GeneralSATEncoder.var_map (key -> id)
    turn_vars_by_line,  \* GeneralSATEncoder.turn_vars_by_line
    line_bounds,        \* GeneralSATEncoder.line_bounds
    args,               \* arguments of a pending direct call of a method
    satisfiable,        \* SATDecoder.satisfiable
    assignment,         \* SATDecoder.assignment: the set of ids assigned True
    line,               \* decode: index k of the line being extracted
    current,            \* extract_path_for_line: current
    visited,            \* extract_path_for_line: visited
    path,               \* extract_path_for_line: path
    paths,              \* decode: paths extracted so far
    runs,               \* the output files written by the decoder runs so far
    output              \* the lines written to the path output file

vars == <<pc, problem, var_counter, clauses, var_map, turn_vars_by_line,
          line_bounds, args, satisfiable, assignment, line, current, visited,
          path, paths, runs, output>>

----------------------------------------------------------------------------
(* Bounds of the model *)

\* largest number of cells N*M of a grid
MaxCells == 6
\* largest turn budget J that is tried with every smaller one
MaxJ == 1
\* a turn budget larger than the number of cells that can turn on these grids
AmpleJ == 4
\* largest number of variables that occur in no clause and are assigned True
MaxFreeTrue == 1
\* largest number of direction variables assigned True in an arbitrary assignment
MaxTrueDirs == 2
\* largest number of indicators handed to at_most_k_efficient
MaxIndicators == 4
\* largest k handed to at_most_k_efficient
MaxBudget == 4
\* largest number of cells of a grid with two lines or a mandatory cell
MaxSmallCells == 4
\* how far past the grid a mandatory cell of the file may lie
MaxOffGrid == 1
\* largest number of cells of a grid the decoder is run on with any assignment
MaxDecoderCells == 4
\* number of times the decoder is run on the same files
MaxRuns == 2
\* number of distinct keys new_var is called with
MaxKeys == 4
\* largest number of new_var calls in a sequence
MaxCalls == 4
\* largest number of cells of a grid whose line may end off the grid
MaxWalkCells == 2

----------------------------------------------------------------------------
(* Python helpers *)

Min(a, b) == IF a <= b THEN a ELSE b
Max(a, b) == IF a >= b THEN a ELSE b
Abs(a) == IF a >= 0 THEN a ELSE -a

\* for x in s: acc = Op(acc, x)
FoldSeq(Op(_, _), acc, s) ==
    LET f[i \in 0..Len(s)] == IF i = 0 THEN acc ELSE Op(f[i - 1], s[i])
    IN  f[Len(s)]

\* list(range(a, b + 1))
Range(a, b) == [i \in 1..Max(0, b - a + 1) |-> a + i - 1] \o <<>>

\* the function f on 1 .. n as the tuple of its values
Tuple(f) == f \o <<>>

\* [F(x) for x in s]
MapSeq(F(_), s) == Tuple([i \in 1..Len(s) |-> F(s[i])])

SeqToSet(s) == {s[i] : i \in 1..Len(s)}

\* the concatenation of the sequences ss[1], ss[2], ...
Flat(ss) ==
    LET RECURSIVE go(_, _)
        go(lo, hi) ==
            IF lo > hi THEN <<>>
            ELSE IF lo = hi THEN ss[lo]
            ELSE go(lo, (lo + hi) \div 2) \o go(((lo + hi) \div 2) + 1, hi)
    IN  go(1, Len(ss))

\* the four directions in the order of range(4): 0=R, 1=L, 2=D, 3=U
Dirs == <<0, 1, 2, 3>>
DX(d) == CASE d = 0 -> 1 [] d = 1 -> -1 [] OTHER -> 0
DY(d) == CASE d = 2 -> 1 [] d = 3 -> -1 [] OTHER -> 0
\* the direction whose move undoes d
Opp(d) == CASE d = 0 -> 1 [] d = 1 -> 0 [] d = 2 -> 3 [] OTHER -> 2
Symbol(d) == CASE d = 0 -> "R" [] d = 1 -> "L" [] d = 2 -> "D" [] OTHER -> "U"

N == problem.N
M == problem.M
K == problem.K

----------------------------------------------------------------------------
(* The encoder object is a record e with the fields var_counter, clauses,  *)
(* var_map, turn_vars_by_line and line_bounds.  A method that emits        *)
(* clauses is modelled by the sequence of its add_clause calls (the        *)
(* literal lists, in call order), which add_clauses then appends.          *)

\* GeneralSATEncoder.__init__
NewEncoder ==
    [var_counter |-> 1, clauses |-> <<>>, var_map |-> <<>>,
     turn_vars_by_line |-> [k \in 0..(K - 1) |-> <<>>],
     line_bounds |-> <<>>]

\* a new_var that allocates the next id for every call, seen key or not
new_var_always(e, description) ==
    [e EXCEPT !.var_map = (description :> e.var_counter) @@ @,
              !.var_counter = @ + 1]

\* new_var: the id of description, allocated when it is new
new_var(e, description) ==
    IF description \in DOMAIN e.var_map
    THEN e
    ELSE [e EXCEPT !.var_map = (description :> e.var_counter) @@ @,
                   !.var_counter = @ + 1]

\* for key in keys: new_var(key).  The keys that are new, at their first
\* occurrence, get the next ids in order.
new_vars(e, keys) ==
    LET fresh == {i \in 1..Len(keys) :
                    /\ keys[i] \notin DOMAIN e.var_map
                    /\ \A j \in 1..(i - 1) : keys[j] # keys[i]}
        idOf(i) == e.var_counter + Cardinality({j \in fresh : j < i})
        added == [key \in {keys[i] : i \in fresh} |->
                    idOf(CHOOSE i \in fresh : keys[i] = key)]
    IN  [e EXCEPT !.var_map = added @@ @,
                  !.var_counter = @ + Cardinality(fresh)]

\* var_map.get(key): 0 stands for None (ids start at 1; both fail `if v:`)
Get(e, key) == IF key \in DOMAIN e.var_map THEN e.var_map[key] ELSE 0

\* add_clause on the clause list cs: a list without literals is not appended
add_clause(cs, literals) ==
    IF literals # <<>> THEN Append(cs, literals) ELSE cs

\* for literals in calls: add_clause(literals)
add_clauses(cs, calls) ==
    cs \o Flat(MapSeq(LAMBDA literals : add_clause(<<>>, literals), calls))

\* at_most_one: one call per pair i < j, in the order of the two loops
at_most_one(variables) ==
    LET n == Len(variables)
    IN  Flat(MapSeq(LAMBDA i :
                        MapSeq(LAMBDA j : <<-variables[i], -variables[j]>>,
                               Range(i + 1, n)),
                    Range(1, n)))

\* a loop that forces no variable False
ForceNoneFalse(variables) == <<>>

\* for v in variables: add_clause([-v])
ForceAllFalse(variables) == MapSeq(LAMBDA v : <<-v>>, variables)

\* at_most_k_efficient: the key the first loop allocates at (i, j),
\* 1 <= j <= min(k, i), and the key the second loop allocates at i >= k + 1
SeqCountKeys(n, k, line_index) ==
    Flat(MapSeq(LAMBDA i :
                    MapSeq(LAMBDA j : <<"seq_count", line_index, i, j>>,
                           Range(1, Min(k + 1, i + 1) - 1)),
                Range(1, n)))
    \o MapSeq(LAMBDA i : <<"seq_count", line_index, i, k + 1>>, Range(k + 1, n))

\* at_most_k_efficient, the calls of the first loop's body at (i, j).  Every
\* key the body looks up is allocated before the body runs or not in this call.
SeqCounterCell(e, variables, line_index, i, j) ==
    LET s_i_j == Get(e, <<"seq_count", line_index, i, j>>)
        v_i == variables[i]
        s_prev_i_j == Get(e, <<"seq_count", line_index, i - 1, j>>)
        s_prev_i_j_minus_1 == Get(e, <<"seq_count", line_index, i - 1, j - 1>>)
    IN  (IF i > 1 /\ s_prev_i_j # 0 THEN <<<<-s_prev_i_j, s_i_j>>>> ELSE <<>>)
        \o (IF j = 1
            THEN <<<<-v_i, s_i_j>>>>
            ELSE IF i > 1 /\ s_prev_i_j_minus_1 # 0
                 THEN <<<<-s_prev_i_j_minus_1, -v_i, s_i_j>>>>
                 ELSE <<>>)

\* the second loop's body without the clause that carries the count of k
\* into column k + 1 when v_i is True
SeqCounterOverflowNoCarry(e, variables, k, line_index, i) ==
    LET s_i_k_plus_1 == Get(e, <<"seq_count", line_index, i, k + 1>>)
        s_prev == Get(e, <<"seq_count", line_index, i - 1, k + 1>>)
    IN  IF i > 1 /\ s_prev # 0 THEN <<<<-s_prev, s_i_k_plus_1>>>> ELSE <<>>

\* at_most_k_efficient, the calls of the second loop's body at i >= k + 1
SeqCounterOverflow(e, variables, k, line_index, i) ==
    LET s_i_k_plus_1 == Get(e, <<"seq_count", line_index, i, k + 1>>)
        v_i == variables[i]
        s_prev == Get(e, <<"seq_count", line_index, i - 1, k + 1>>)
        s_prev_k == Get(e, <<"seq_count", line_index, i - 1, k>>)
    IN  (IF i > 1 /\ s_prev # 0 THEN <<<<-s_prev, s_i_k_plus_1>>>> ELSE <<>>)
        \o (IF i > 1 /\ s_prev_k # 0
            THEN <<<<-s_prev_k, -v_i, s_i_k_plus_1>>>>
            ELSE <<>>)

\* at_most_k_efficient: the sequential counter encoding
at_most_k_efficient(e, variables, k, line_index) ==
    LET n == Len(variables)
        e1 == new_vars(e, SeqCountKeys(n, k, line_index))
        counted ==
            Flat(MapSeq(LAMBDA i :
                            Flat(MapSeq(LAMBDA j :
                                            SeqCounterCell(e1, variables, line_index, i, j),
                                        Range(1, Min(k + 1, i + 1) - 1))),
                        Range(1, n)))
        overflowed ==
            Flat(MapSeq(LAMBDA i : SeqCounterOverflow(e1, variables, k, line_index, i),
                        Range(k + 1, n)))
        \* the last s_i_k_plus_1 the second loop assigned is the one of i = n
        final == <<<<-Get(e1, <<"seq_count", line_index, n, k + 1>>)>>>>
    IN  IF k < 0 THEN [e EXCEPT !.clauses = add_clauses(@, ForceAllFalse(variables))]
        ELSE IF k = 0 THEN [e EXCEPT !.clauses = add_clauses(@, ForceAllFalse(variables))]
        ELSE IF k >= n THEN e
        ELSE [e1 EXCEPT !.clauses = add_clauses(@, counted \o overflowed \o final)]

----------------------------------------------------------------------------
(* Domain pruner *)

Start(k) == problem.lines[k + 1][1]
End(k) == problem.lines[k + 1][2]

\* the distance identify_lines_for_popular_cells gives line k for popular cell p
DistTo(p, k) ==
    Min(Abs(p[1] - Start(k)[1]) + Abs(p[2] - Start(k)[2]),
        Abs(p[1] - End(k)[1]) + Abs(p[2] - End(k)[2]))

\* distances.sort() on the (min_dist, k) tuples: the index of line k's tuple
RankOf(p, k) ==
    Cardinality({k2 \in 0..(K - 1) :
        \/ DistTo(p, k2) < DistTo(p, k)
        \/ DistTo(p, k2) = DistTo(p, k) /\ k2 < k})

\* identify_lines_for_popular_cells: the 3 closest lines of every popular cell
identify_lines_for_popular_cells ==
    IF problem.scenario # 2 \/ problem.P = 0
    THEN {}
    ELSE {k \in 0..(K - 1) :
            \E i \in 1..Len(problem.popular_cells) :
                RankOf(problem.popular_cells[i], k) < 3}

\* calculate_buffer.  length_ratio = manhattan / ((N + M) / 2) is compared
\* with 0.8 and 0.5 in integers; int(manhattan * 0.15) is the floor.
calculate_buffer(k, sx, sy, ex, ey, J, expand_for_popular) ==
    LET manhattan == Abs(ex - sx) + Abs(ey - sy)
        base_buffer == J * 2 + 5
        extra_buffer ==
            IF 10 * manhattan > 4 * (N + M) THEN (manhattan * 15) \div 100
            ELSE IF 4 * manhattan > N + M THEN (manhattan * 10) \div 100
            ELSE 0
        total_buffer == base_buffer + extra_buffer
        max_buffer == Min(50, Max(Max(N \div 3, M \div 3), 5))
        buffer0 == Min(total_buffer, max_buffer)
        expanded ==
            FoldSeq(LAMBDA buffer, p :
                        LET min_buffer_x == Max(Abs(p[1] - sx), Abs(p[1] - ex))
                            min_buffer_y == Max(Abs(p[2] - sy), Abs(p[2] - ey))
                            needed_buffer == Max(min_buffer_x, min_buffer_y)
                        IN  IF needed_buffer > buffer
                            THEN Min(needed_buffer, Max(N, M))
                            ELSE buffer,
                    buffer0, problem.popular_cells)
    IN  IF expand_for_popular /\ problem.scenario = 2 /\ problem.P > 0
        THEN expanded
        ELSE buffer0

\* the bounding box (min_x, max_x, min_y, max_y) create_variables gives line k
BoxOf(k) ==
    LET sx == Start(k)[1]
        sy == Start(k)[2]
        ex == End(k)[1]
        ey == End(k)[2]
        buffer == calculate_buffer(k, sx, sy, ex, ey, problem.J,
                                   k \in identify_lines_for_popular_cells)
    IN  <<Max(0, Min(sx, ex) - buffer), Min(N - 1, Max(sx, ex) + buffer),
          Max(0, Min(sy, ey) - buffer), Min(M - 1, Max(sy, ey) + buffer)>>

\* for x in range(min_x, max_x + 1): for y in range(min_y, max_y + 1)
CellsOf(b) ==
    LET xs == Range(b[1], b[2])
        ys == Range(b[3], b[4])
    IN  [i \in 1..(Len(xs) * Len(ys)) |->
            <<xs[((i - 1) \div Len(ys)) + 1], ys[((i - 1) % Len(ys)) + 1]>>]

\* create_variables, the keys of the two inner loops' body for one cell
CellKeys(k, c) ==
    <<<<"cell", k, c[1], c[2]>>>>
    \o MapSeq(LAMBDA d : <<"dir", k, c[1], c[2], d>>, Dirs)
    \o <<<<"turn", k, c[1], c[2]>>>>

\* create_variables: line_bounds[k] and the variables of every cell of the box
create_variables(e) ==
    LET keys == Flat(MapSeq(LAMBDA k :
                        Flat(MapSeq(LAMBDA c : CellKeys(k, c), CellsOf(BoxOf(k)))),
                     Range(0, K - 1)))
    IN  [new_vars(e, keys) EXCEPT !.line_bounds = [k \in 0..(K - 1) |-> BoxOf(k)]]

\* in_bounds
in_bounds(e, k, x, y) ==
    LET b == e.line_bounds[k]
    IN  b[1] <= x /\ x <= b[2] /\ b[3] <= y /\ y <= b[4]

----------------------------------------------------------------------------
(* Constraint encoder *)

\* the test guarding a move in direction d out of (x, y): the neighbour is in
\* the grid on the side moved to, and inside the box of line k
CanStep(e, k, x, y, d) ==
    /\ CASE d = 0 -> x + 1 < N
         [] d = 1 -> x - 1 >= 0
         [] d = 2 -> y + 1 < M
         [] OTHER -> y - 1 >= 0
    /\ in_bounds(e, k, x + DX(d), y + DY(d))

\* the (d, id) pairs of the direction variables leaving (x, y), in scan order
OutDirs(e, k, x, y) ==
    SelectSeq(MapSeq(LAMBDA d : <<d, IF CanStep(e, k, x, y, d)
                                      THEN Get(e, <<"dir", k, x, y, d>>)
                                      ELSE 0>>, Dirs),
              LAMBDA t : t[2] # 0)

\* the (d, id) pairs of the direction variables entering (x, y): direction d
\* enters from the neighbour on the side opposite to d
InDirs(e, k, x, y) ==
    SelectSeq(MapSeq(LAMBDA d : <<d, IF CanStep(e, k, x, y, Opp(d))
                                      THEN Get(e, <<"dir", k, x - DX(d), y - DY(d), d>>)
                                      ELSE 0>>, Dirs),
              LAMBDA t : t[2] # 0)

Ids(ds) == MapSeq(LAMBDA t : t[2], ds)

\* encode_start_end emitting nothing
encode_start_end_nothing(e, k, sx, sy, ex, ey) == <<>>

\* encode_start_end
encode_start_end(e, k, sx, sy, ex, ey) ==
    LET start_var == Get(e, <<"cell", k, sx, sy>>)
        end_var == Get(e, <<"cell", k, ex, ey>>)
    IN  (IF start_var # 0 THEN <<<<start_var>>>> ELSE <<>>)
        \o (IF end_var # 0 THEN <<<<end_var>>>> ELSE <<>>)

\* encode_direction_implications
encode_direction_implications(e, k, x, y) ==
    Flat(MapSeq(LAMBDA d :
                    LET dir_var == Get(e, <<"dir", k, x, y, d>>)
                        next_cell == Get(e, <<"cell", k, x + DX(d), y + DY(d)>>)
                    IN  IF CanStep(e, k, x, y, d) /\ dir_var # 0 /\ next_cell # 0
                        THEN <<<<-dir_var, next_cell>>>>
                        ELSE <<>>,
                Dirs))

\* encode_path_connectivity: the flow constraints of one cell
FlowConstraints(cell_var, outgoing, incoming, isStart, isEnd) ==
    LET some(ds) == IF ds # <<>> THEN <<<<-cell_var>> \o ds>> ELSE <<>>
        amo(ds) == IF ds # <<>> THEN at_most_one(ds) ELSE <<>>
    IN  IF isStart
        THEN some(outgoing) \o amo(outgoing) \o ForceAllFalse(incoming)
        ELSE IF isEnd
        THEN some(incoming) \o amo(incoming) \o ForceAllFalse(outgoing)
        ELSE some(incoming) \o some(outgoing) \o amo(incoming) \o amo(outgoing)

\* encode_path_connectivity, the loop body for one cell
ConnectCell(e, k, x, y, sx, sy, ex, ey) ==
    LET cell_var == Get(e, <<"cell", k, x, y>>)
        outgoing == Ids(OutDirs(e, k, x, y))
        incoming == Ids(InDirs(e, k, x, y))
    IN  IF cell_var = 0 THEN <<>>
        ELSE FlowConstraints(cell_var, outgoing, incoming,
                             <<x, y>> = <<sx, sy>>, <<x, y>> = <<ex, ey>>)
             \o MapSeq(LAMBDA d_var : <<cell_var, -d_var>>, outgoing \o incoming)
             \o encode_direction_implications(e, k, x, y)

\* encode_path_connectivity
encode_path_connectivity(e, k, sx, sy, ex, ey) ==
    Flat(MapSeq(LAMBDA c : ConnectCell(e, k, c[1], c[2], sx, sy, ex, ey),
                CellsOf(e.line_bounds[k])))

\* encode_turn_constraints: the turn definitions of one cell
TurnDefinitions(turn_var, in_dirs, out_dirs) ==
    Flat(MapSeq(LAMBDA i :
                    MapSeq(LAMBDA o :
                               IF i[1] # o[1]
                               THEN <<-i[2], -o[2], turn_var>>
                               ELSE <<-i[2], -o[2], -turn_var>>,
                           out_dirs),
                in_dirs))

\* encode_turn_constraints: whether the loop body reaches
\* turn_vars_by_line[k].append(turn_var) at cell (x, y)
CountsTurn(e, k, x, y, sx, sy, ex, ey) ==
    /\ Get(e, <<"turn", k, x, y>>) # 0
    /\ <<x, y>> # <<sx, sy>>
    /\ <<x, y>> # <<ex, ey>>

\* encode_turn_constraints, the calls of the loop body for one cell
TurnCell(e, k, x, y, sx, sy, ex, ey) ==
    LET turn_var == Get(e, <<"turn", k, x, y>>)
        cell_var == Get(e, <<"cell", k, x, y>>)
    IN  IF turn_var = 0 THEN <<>>
        ELSE IF <<x, y>> = <<sx, sy>> \/ <<x, y>> = <<ex, ey>>
        THEN <<<<-turn_var>>>>
        ELSE (IF cell_var # 0 THEN <<<<-turn_var, cell_var>>>> ELSE <<>>)
             \o TurnDefinitions(turn_var, InDirs(e, k, x, y), OutDirs(e, k, x, y))

\* encode_turn_constraints: the loop over the cells, then the turn limit
encode_turn_constraints(e, k, sx, sy, ex, ey, J) ==
    LET cells == CellsOf(e.line_bounds[k])
        calls == Flat(MapSeq(LAMBDA c : TurnCell(e, k, c[1], c[2], sx, sy, ex, ey),
                             cells))
        counted == SelectSeq(cells,
                       LAMBDA c : CountsTurn(e, k, c[1], c[2], sx, sy, ex, ey))
        e1 == [e EXCEPT !.clauses = add_clauses(@, calls),
                        !.turn_vars_by_line[k] =
                            @ \o MapSeq(LAMBDA c : Get(e, <<"turn", k, c[1], c[2]>>),
                                        counted)]
    IN  at_most_k_efficient(e1, e1.turn_vars_by_line[k], J, k)

\* encode_anti_parallel_directions
encode_anti_parallel_directions(e, k) ==
    Flat(MapSeq(LAMBDA c :
                    Flat(MapSeq(LAMBDA d :
                                    LET dir_out == Get(e, <<"dir", k, c[1], c[2], d>>)
                                        dir_in == Get(e, <<"dir", k, c[1] + DX(d),
                                                            c[2] + DY(d), Opp(d)>>)
                                    IN  IF CanStep(e, k, c[1], c[2], d)
                                           /\ dir_out # 0 /\ dir_in # 0
                                        THEN <<<<-dir_out, -dir_in>>>>
                                        ELSE <<>>,
                                Dirs)),
                CellsOf(e.line_bounds[k])))

\* [v for k in range(K) if (v := var_map.get(('cell', k, x, y)))]
vars_in_cell(e, x, y) ==
    SelectSeq(MapSeq(LAMBDA k : Get(e, <<"cell", k, x, y>>), Range(0, K - 1)),
              LAMBDA v : v # 0)

\* encode_no_overlap emitting nothing
encode_no_overlap_nothing(e) == <<>>

\* encode_no_overlap.  cells_to_check is a Python set: its cells are taken
\* here in row order (the order does not change which clauses are emitted).
encode_no_overlap(e) ==
    LET cells_to_check ==
            UNION {SeqToSet(CellsOf(e.line_bounds[k])) : k \in 0..(K - 1)}
        ordered == SelectSeq(CellsOf(<<0, N - 1, 0, M - 1>>),
                             LAMBDA c : c \in cells_to_check)
    IN  Flat(MapSeq(LAMBDA c :
                        IF Len(vars_in_cell(e, c[1], c[2])) > 1
                        THEN at_most_one(vars_in_cell(e, c[1], c[2]))
                        ELSE <<>>,
                    ordered))

\* encode_popular_cells: the disjunction of the cell's variables, or the
\* call add_clause([]) when no line has a variable there
encode_popular_cells(e) ==
    MapSeq(LAMBDA p :
               IF vars_in_cell(e, p[1], p[2]) # <<>>
               THEN vars_in_cell(e, p[1], p[2])
               ELSE <<>>,
           problem.popular_cells)

\* encode_constraints, the body of the loop over the lines for line k
EncodeLine(e, k) ==
    LET sx == Start(k)[1]
        sy == Start(k)[2]
        ex == End(k)[1]
        ey == End(k)[2]
        e1 == [e EXCEPT !.clauses =
                  add_clauses(@, encode_start_end(e, k, sx, sy, ex, ey)
                                 \o encode_path_connectivity(e, k, sx, sy, ex, ey))]
        e2 == encode_turn_constraints(e1, k, sx, sy, ex, ey, problem.J)
    IN  [e2 EXCEPT !.clauses = add_clauses(@, encode_anti_parallel_directions(e2, k))]

\* encode_constraints
encode_constraints(e) ==
    LET perLine == FoldSeq(EncodeLine, e, Range(0, K - 1))
        noOverlap == [perLine EXCEPT !.clauses =
                         add_clauses(@, encode_no_overlap(perLine))]
    IN  IF problem.scenario = 2 /\ problem.P > 0
        THEN [noOverlap EXCEPT !.clauses =
                 add_clauses(@, encode_popular_cells(noOverlap))]
        ELSE noOverlap

----------------------------------------------------------------------------
(* The solver's answer.  The solver is an external program: it is given    *)
(* the clauses in DIMACS form over the ids 1 .. var_counter - 1 and        *)
(* answers UNSAT when no assignment satisfies them, or else with any       *)
(* assignment that satisfies every clause.                                 *)

\* the id of a signed literal
VarOf(lit) == Abs(lit)

\* whether assignment a (the set of ids assigned True) makes literal lit true
Holds(a, lit) == IF lit > 0 THEN lit \in a ELSE (-lit) \notin a

\* whether a satisfies clause c: at least one literal holds
SatisfiesClause(a, c) == \E i \in 1..Len(c) : Holds(a, c[i])

\* whether a satisfies every clause of cs
Satisfies(a, cs) == \A i \in 1..Len(cs) : SatisfiesClause(a, cs[i])

\* the ids that occur in no clause of cs
FreeVars(cs, n) ==
    (1..n) \ UNION {{VarOf(cs[i][j]) : j \in 1..Len(cs[i])} : i \in 1..Len(cs)}

\* the ids 1 .. n in the order in which the clause list first mentions them,
\* those no clause mentions last
MentionOrder(cs, n) ==
    LET width == n + 1
        firstOf == Tuple([v \in 1..n |->
                      LET at == {i \in 1..Len(cs) : \E j \in 1..Len(cs[i]) : VarOf(cs[i][j]) = v}
                      IN  IF at = {} THEN (Len(cs) + 1) * width + v
                          ELSE LET i == CHOOSE i \in at : \A i2 \in at : i <= i2
                                   j == CHOOSE j \in 1..Len(cs[i]) :
                                            /\ VarOf(cs[i][j]) = v
                                            /\ \A j2 \in 1..(j - 1) : VarOf(cs[i][j2]) # v
                               IN  i * width + j])
        rank == Tuple([v \in 1..n |-> Cardinality({u \in 1..n : firstOf[u] < firstOf[v]})])
    IN  Tuple([r \in 1..n |-> CHOOSE v \in 1..n : rank[v] = r - 1])

\* every assignment to the ids 1 .. n satisfying cs in which at most
\* MaxFreeTrue of the ids no clause mentions are True.  The ids are decided
\* one at a time in MentionOrder (the places lo .. hi as lo .. mid, then
\* mid + 1 .. hi); a partial assignment is dropped as soon as a clause all of
\* whose ids are decided is false, and none is left to extend once all are
\* dropped.
Models(cs, n) ==
    LET free == FreeVars(cs, n)
        order == MentionOrder(cs, n)
        place == Tuple([v \in 1..n |-> CHOOSE r \in 1..n : order[r] = v])
        last == Tuple([i \in 1..Len(cs) |->
                    CHOOSE r \in {place[VarOf(cs[i][j])] : j \in 1..Len(cs[i])} :
                        \A j \in 1..Len(cs[i]) : place[VarOf(cs[i][j])] <= r])
        due == Tuple([r \in 1..n |-> {i \in 1..Len(cs) : last[i] = r}])
        ok(a, r) == /\ \A i \in due[r] : SatisfiesClause(a, cs[i])
                    /\ order[r] \in free => Cardinality(a \cap free) <= MaxFreeTrue
        extend(S, r) == {a \in S \cup {b \cup {order[r]} : b \in S} : ok(a, r)}
        RECURSIVE go(_, _, _)
        go(S, lo, hi) ==
            IF S = {} \/ lo > hi THEN S
            ELSE IF lo = hi THEN extend(S, lo)
            ELSE go(go(S, lo, (lo + hi) \div 2), ((lo + hi) \div 2) + 1, hi)
    IN  IF \E i \in 1..Len(cs) : cs[i] = <<>> THEN {} ELSE go({{}}, 1, n)

----------------------------------------------------------------------------
(* The decoder *)

\* decode() returning None
None == <<<<"None">>>>

\* var_map.get(key) of the persisted map
GetVar(key) == IF key \in DOMAIN var_map THEN var_map[key] ELSE 0

\* the scan order range(4) reversed
ScanOrderReversed == <<3, 2, 1, 0>>

\* the scan order of the loop `for d in range(4)`
ScanOrder == Dirs

\* a direction test that does not look at the visited cells
EligibleRevisit(k, c, d, seen) ==
    /\ GetVar(<<"dir", k, c[1], c[2], d>>) # 0
    /\ GetVar(<<"dir", k, c[1], c[2], d>>) \in assignment

\* whether direction d is taken up at cell c of line k: its variable is in the
\* map and assigned True, and the cell it leads to has not been visited
Eligible(k, c, d, seen) ==
    /\ GetVar(<<"dir", k, c[1], c[2], d>>) # 0
    /\ GetVar(<<"dir", k, c[1], c[2], d>>) \in assignment
    /\ <<c[1] + DX(d), c[2] + DY(d)>> \notin seen

\* the directions the scan of one loop iteration finds eligible, in scan order
EligibleDirs(k, c, seen) ==
    SelectSeq(ScanOrder, LAMBDA d : Eligible(k, c, d, seen))

\* one line of the output file, as its tokens
OutputLine(p) == IF p # <<>> THEN p \o <<"0">> ELSE <<"0">>

\* the lines the main program writes for the result of decode()
WrittenLines(ps) ==
    IF ps = None THEN <<<<"0">>>> ELSE MapSeq(OutputLine, ps)

----------------------------------------------------------------------------
(* The problems read.  The parser checks nothing: any integers are read. *)

\* the grids with at most c cells
Grids(c) == {g \in (1..c) \X (1..c) : g[1] * g[2] <= c}

CellSet(n, m) == (0..(n - 1)) \X (0..(m - 1))

\* MetroProblem.__init__: the fields read from the file
MetroProblem(scenario, n, m, J, lines, popular_cells) ==
    [scenario |-> scenario, N |-> n, M |-> m, K |-> Len(lines), J |-> J,
     P |-> Len(popular_cells), lines |-> lines, popular_cells |-> popular_cells]

\* scenario 1, one line between any two cells of a grid of at most MaxCells
\* cells, any turn budget -1 .. MaxJ, or AmpleJ
OneLineProblems ==
    UNION {{MetroProblem(1, g[1], g[2], j, <<<<s, t>>>>, <<>>) :
                j \in (-1..MaxJ) \cup {AmpleJ}, s \in CellSet(g[1], g[2]), t \in CellSet(g[1], g[2])} :
           g \in Grids(MaxCells)}

\* scenario 1, two lines between any cells of a grid of at most
\* MaxSmallCells cells, turn budget 0 (on these grids two lines that do not
\* share a cell cannot turn)
TwoLineProblems ==
    UNION {{MetroProblem(1, g[1], g[2], 0, <<<<s1, t1>>, <<s2, t2>>>>, <<>>) :
                s1 \in CellSet(g[1], g[2]), t1 \in CellSet(g[1], g[2]),
                s2 \in CellSet(g[1], g[2]), t2 \in CellSet(g[1], g[2])} :
           g \in Grids(MaxSmallCells)}

\* scenario 2, one line and one mandatory cell, which the file may place up to
\* MaxOffGrid columns or rows past the grid
PopularProblems ==
    UNION {{MetroProblem(2, g[1], g[2], j, <<<<s, t>>>>, <<p>>) :
                j \in 0..MaxJ,
                s \in CellSet(g[1], g[2]), t \in CellSet(g[1], g[2]),
                p \in CellSet(g[1] + MaxOffGrid, g[2] + MaxOffGrid)} :
           g \in Grids(MaxSmallCells)}

\* the 3x3 grid with one line from (0,0) to (2,0), turn budget 0 and no
\* mandatory cells
RoundTripScenario ==
    MetroProblem(1, 3, 3, 0, <<<<(<<0, 0>>), (<<2, 0>>)>>>>, <<>>)

Problems ==
    OneLineProblems \cup TwoLineProblems \cup PopularProblems \cup {RoundTripScenario}

----------------------------------------------------------------------------
(* The pipeline *)

\* the state before the encoder runs on problem p
InitWith(p) ==
    /\ pc = "start"
    /\ problem = p
    /\ var_counter = 1
    /\ clauses = <<>>
    /\ var_map = <<>>
    /\ turn_vars_by_line = [k \in 0..(p.K - 1) |-> <<>>]
    /\ line_bounds = <<>>
    /\ args = <<>>
    /\ satisfiable = FALSE
    /\ assignment = {}
    /\ line = 0
    /\ current = <<0, 0>>
    /\ visited = {}
    /\ path = <<>>
    /\ paths = <<>>
    /\ runs = <<>>
    /\ output = <<>>

Init == \E p \in Problems : InitWith(p)

\* the encoder object as a record
Encoder ==
    [var_counter |-> var_counter, clauses |-> clauses, var_map |-> var_map,
     turn_vars_by_line |-> turn_vars_by_line, line_bounds |-> line_bounds]

SetEncoder(e) ==
    /\ var_counter' = e.var_counter
    /\ clauses' = e.clauses
    /\ var_map' = e.var_map
    /\ turn_vars_by_line' = e.turn_vars_by_line
    /\ line_bounds' = e.line_bounds

\* encoder.create_variables()
CreateVariables ==
    /\ pc = "start"
    /\ SetEncoder(create_variables(Encoder))
    /\ pc' = "created"
    /\ UNCHANGED <<problem, args, satisfiable, assignment, line, current,
                   visited, path, paths, runs, output>>

\* encoder.encode_constraints()
EncodeConstraints ==
    /\ pc = "created"
    /\ SetEncoder(encode_constraints(Encoder))
    /\ pc' = "encoded"
    /\ UNCHANGED <<problem, args, satisfiable, assignment, line, current,
                   visited, path, paths, runs, output>>

\* the solver runs on the DIMACS file and SATDecoder.__init__ reads its
\* answer: UNSAT when no assignment satisfies the clauses, else SAT with any
\* satisfying assignment
Solve ==
    /\ pc = "encoded"
    /\ LET answers == Models(clauses, var_counter - 1)
       IN  IF answers = {}
           THEN /\ satisfiable' = FALSE
                /\ assignment' = {}
           ELSE /\ satisfiable' = TRUE
                /\ assignment' \in answers
    /\ pc' = "solved"
    /\ UNCHANGED <<problem, var_counter, clauses, var_map, turn_vars_by_line,
                   line_bounds, args, line, current, visited, path, paths,
                   runs, output>>

\* the first statements of extract_path_for_line(k)
EnterLine(k) ==
    /\ line' = k
    /\ current' = Start(k)
    /\ visited' = {Start(k)}
    /\ path' = <<>>

\* decoder.decode(): None when unsatisfiable, else the first line's walk begins
Decode ==
    /\ pc = "solved"
    /\ IF ~satisfiable
       THEN /\ paths' = None
            /\ pc' = "write"
            /\ UNCHANGED <<line, current, visited, path>>
       ELSE /\ paths' = <<>>
            /\ EnterLine(0)
            /\ pc' = "walk"
    /\ UNCHANGED <<problem, var_counter, clauses, var_map, turn_vars_by_line,
                   line_bounds, args, satisfiable, assignment, runs, output>>

\* one iteration of `while current != (end_x, end_y)`
WalkStep ==
    /\ pc = "walk"
    /\ current # End(line)
    /\ LET ds == EligibleDirs(line, current, visited)
           next_pos == <<current[1] + DX(ds[1]), current[2] + DY(ds[1])>>
       IN  IF ds = <<>>
           THEN \* not moved: break
                /\ pc' = "return"
                /\ UNCHANGED <<current, visited, path>>
           ELSE /\ path' = Append(path, Symbol(ds[1]))
                /\ current' = next_pos
                /\ visited' = visited \cup {next_pos}
                /\ pc' = IF Cardinality(visited \cup {next_pos}) > N * M
                         THEN "return" ELSE "walk"
    /\ UNCHANGED <<problem, var_counter, clauses, var_map, turn_vars_by_line,
                   line_bounds, args, satisfiable, assignment, line, paths,
                   runs, output>>

\* the loop condition fails: current is the end cell
WalkDone ==
    /\ pc = "walk"
    /\ current = End(line)
    /\ pc' = "return"
    /\ UNCHANGED <<problem, var_counter, clauses, var_map, turn_vars_by_line,
                   line_bounds, args, satisfiable, assignment, line, current,
                   visited, path, paths, runs, output>>

\* `return path`, and decode()'s loop goes on to the next line or returns paths
ReturnPath ==
    /\ pc = "return"
    /\ paths' = Append(paths, path)
    /\ IF line + 1 < K
       THEN /\ EnterLine(line + 1)
            /\ pc' = "walk"
       ELSE /\ pc' = "write"
            /\ UNCHANGED <<line, current, visited, path>>
    /\ UNCHANGED <<problem, var_counter, clauses, var_map, turn_vars_by_line,
                   line_bounds, args, satisfiable, assignment, runs, output>>

\* the main program writes the output file
WriteOutput ==
    /\ pc = "write"
    /\ output' = WrittenLines(paths)
    /\ runs' = Append(runs, WrittenLines(paths))
    /\ pc' = "done"
    /\ UNCHANGED <<problem, var_counter, clauses, var_map, turn_vars_by_line,
                   line_bounds, args, satisfiable, assignment, line, current,
                   visited, path, paths>>

Next ==
    \/ CreateVariables
    \/ EncodeConstraints
    \/ Solve
    \/ Decode
    \/ WalkStep
    \/ WalkDone
    \/ ReturnPath
    \/ WriteOutput

\* encoder, solver and decoder on every problem of the families
Spec == Init /\ [][Next]_vars

\* the same pipeline on the problems with two lines
InitTwoLines == \E p \in TwoLineProblems : InitWith(p)
SpecTwoLines == InitTwoLines /\ [][Next]_vars

\* the same pipeline on the one-line problems of the 3x3 grid with turn
\* budget 0, the round trip scenario among them
InitScenario ==
    \E p \in {MetroProblem(1, 3, 3, 0, <<<<s, t>>>>, <<>>) :
                s \in CellSet(3, 3), t \in CellSet(3, 3)} : InitWith(p)
SpecScenario == InitScenario /\ [][Next]_vars

----------------------------------------------------------------------------
(* at_most_k_efficient called directly: the encoder has allocated n        *)
(* indicator variables, the call is made, and the indicators are assigned. *)

\* the keys of n indicator variables
IndicatorKeys(n) == MapSeq(LAMBDA i : <<"turn", 0, i - 1, 0>>, Range(1, n))

InitAMK ==
    \E n \in 0..MaxIndicators, k \in -1..MaxBudget :
        LET p == MetroProblem(1, 1, 1, k, <<<<(<<0, 0>>), (<<0, 0>>)>>>>, <<>>)
            e == new_vars([var_counter |-> 1, clauses |-> <<>>, var_map |-> <<>>,
                           turn_vars_by_line |-> <<>>, line_bounds |-> <<>>],
                          IndicatorKeys(n))
        IN  /\ problem = p
            /\ pc = "call"
            /\ var_counter = e.var_counter
            /\ var_map = e.var_map
            /\ clauses = <<>>
            /\ turn_vars_by_line = [i \in {0} |-> <<>>]
            /\ line_bounds = <<>>
            /\ args = [variables |-> Range(1, n), k |-> k, line_index |-> 0]
            /\ satisfiable = FALSE
            /\ assignment = {}
            /\ line = 0
            /\ current = <<0, 0>>
            /\ visited = {}
            /\ path = <<>>
            /\ paths = <<>>
            /\ runs = <<>>
            /\ output = <<>>

\* at_most_k_efficient(variables, k, line_index)
AtMostK ==
    /\ pc = "call"
    /\ SetEncoder(at_most_k_efficient(Encoder, args.variables, args.k, args.line_index))
    /\ pc' = "counted"
    /\ UNCHANGED <<problem, args, satisfiable, assignment, line, current,
                   visited, path, paths, runs, output>>

\* the indicators are given truth values: assignment is the set of those True
AssignIndicators ==
    /\ pc = "counted"
    /\ assignment' \in SUBSET SeqToSet(args.variables)
    /\ pc' = "assigned"
    /\ UNCHANGED <<problem, var_counter, clauses, var_map, turn_vars_by_line,
                   line_bounds, args, satisfiable, line, current, visited, path,
                   paths, runs, output>>

NextAMK ==
    \/ AtMostK
    \/ AssignIndicators

SpecAMK == InitAMK /\ [][NextAMK]_vars

----------------------------------------------------------------------------
(* The decoder on any solver result file: the variables are created, any  *)
(* assignment is read, and the decoder is run MaxRuns times on it.         *)

\* the subsets of S with at most n elements
AtMost(S, n) ==
    LET RECURSIVE upTo(_)
        upTo(i) == IF i = 0 THEN {{}}
                   ELSE LET prev == upTo(i - 1)
                        IN  prev \cup {a \cup {x} : a \in prev, x \in S}
    IN  upTo(n)

\* the ids of the direction variables
DirIds == {var_map[key] : key \in {q \in DOMAIN var_map : q[1] = "dir"}}

\* one-line problems on the grids of at most MaxDecoderCells cells
DecoderProblems ==
    UNION {{MetroProblem(1, g[1], g[2], 0, <<<<s, t>>>>, <<>>) :
                s \in CellSet(g[1], g[2]), t \in CellSet(g[1], g[2])} :
           g \in Grids(MaxDecoderCells)}

InitDecoder == \E p \in DecoderProblems : InitWith(p)

\* SATDecoder.__init__ on a result file that says SAT and lists any
\* assignment; only the direction variables' values are read by the decoder
ReadAssignment ==
    /\ pc = "created"
    /\ assignment' \in AtMost(DirIds, MaxTrueDirs)
    /\ satisfiable' = TRUE
    /\ pc' = "solved"
    /\ UNCHANGED <<problem, var_counter, clauses, var_map, turn_vars_by_line,
                   line_bounds, args, line, current, visited, path, paths,
                   runs, output>>

\* the decoder is run again on the same files
DecodeAgain ==
    /\ pc = "done"
    /\ Len(runs) < MaxRuns
    /\ pc' = "solved"
    /\ UNCHANGED <<problem, var_counter, clauses, var_map, turn_vars_by_line,
                   line_bounds, args, satisfiable, assignment, line, current,
                   visited, path, paths, runs, output>>

NextDecoder ==
    \/ CreateVariables
    \/ ReadAssignment
    \/ Decode
    \/ WalkStep
    \/ WalkDone
    \/ ReturnPath
    \/ WriteOutput
    \/ DecodeAgain

SpecDecoder == InitDecoder /\ [][NextDecoder]_vars

----------------------------------------------------------------------------
(* The decoder run once on its three files: a problem file whose line may  *)
(* end at any cell, cells outside the grid included (the parser checks     *)
(* nothing), the variable map file the encoder wrote for that grid, and    *)
(* any solver result file.  The program is sequential: a step that can be  *)
(* taken is taken.                                                         *)

\* one-line problems on the grids of at most MaxWalkCells cells
WalkProblems ==
    UNION {{MetroProblem(1, g[1], g[2], 0, <<<<s, t>>>>, <<>>) :
                s \in CellSet(g[1], g[2]),
                t \in CellSet(g[1] + MaxOffGrid, g[2] + MaxOffGrid)} :
           g \in Grids(MaxWalkCells)}

\* pickle.load(varmap_file): the map create_variables builds for one line
\* whose box is the whole n x m grid.  Cell (x, y) is the (x * m + y)-th of
\* the two loops and takes six ids: cell, the four directions, turn.
VarMapFile(n, m) ==
    LET keys == UNION {{<<"cell", 0, c[1], c[2]>>, <<"turn", 0, c[1], c[2]>>}
                        \cup {<<"dir", 0, c[1], c[2], d>> : d \in 0..3} :
                       c \in CellSet(n, m)}
        base(key) == 6 * (key[3] * m + key[4])
    IN  [key \in keys |->
            IF key[1] = "cell" THEN base(key) + 1
            ELSE IF key[1] = "dir" THEN base(key) + 2 + key[5]
            ELSE base(key) + 6]

InitWalk ==
    \E p \in WalkProblems :
        /\ problem = p
        /\ pc = "created"
        /\ var_counter = 6 * p.N * p.M + 1
        /\ var_map = VarMapFile(p.N, p.M)
        /\ clauses = <<>>
        /\ turn_vars_by_line = [k \in {0} |-> <<>>]
        /\ line_bounds = <<>>
        /\ args = <<>>
        /\ satisfiable = FALSE
        /\ assignment = {}
        /\ line = 0
        /\ current = <<0, 0>>
        /\ visited = {}
        /\ path = <<>>
        /\ paths = <<>>
        /\ runs = <<>>
        /\ output = <<>>

NextWalk ==
    \/ ReadAssignment
    \/ Decode
    \/ WalkStep
    \/ WalkDone
    \/ ReturnPath
    \/ WriteOutput

SpecWalk == InitWalk /\ [][NextWalk]_vars /\ WF_vars(NextWalk)

----------------------------------------------------------------------------
(* new_var called directly on a fresh encoder, with any sequence of keys,  *)
(* repeated keys included.  args logs the calls: the key of each call and  *)
(* the id it returned.                                                     *)

\* the keys the calls are made with
AllocKeys == {<<"cell", 0, x, 0>> : x \in 0..(MaxKeys - 1)}

InitAlloc ==
    /\ problem = MetroProblem(1, 1, 1, 0, <<<<(<<0, 0>>), (<<0, 0>>)>>>>, <<>>)
    /\ pc = "alloc"
    /\ var_counter = 1
    /\ clauses = <<>>
    /\ var_map = <<>>
    /\ turn_vars_by_line = [k \in {0} |-> <<>>]
    /\ line_bounds = <<>>
    /\ args = <<>>
    /\ satisfiable = FALSE
    /\ assignment = {}
    /\ line = 0
    /\ current = <<0, 0>>
    /\ visited = {}
    /\ path = <<>>
    /\ paths = <<>>
    /\ runs = <<>>
    /\ output = <<>>

\* id = encoder.new_var(key)
NewVar ==
    /\ pc = "alloc"
    /\ Len(args) < MaxCalls
    /\ \E key \in AllocKeys :
        LET e == new_var(Encoder, key)
        IN  /\ SetEncoder(e)
            /\ args' = Append(args, [description |-> key,
                                     returned |-> e.var_map[key]])
    /\ UNCHANGED <<pc, problem, satisfiable, assignment, line, current,
                   visited, path, paths, runs, output>>

NextAlloc == NewVar

SpecAlloc == InitAlloc /\ [][NextAlloc]_vars

----------------------------------------------------------------------------
(* The pipeline on problems with a line that starts and ends at the same   *)
(* cell.  Such a line has no move to make, so the loop body of the         *)
(* decoder's walk is never run.                                            *)

\* one line from a cell to itself, on the grids of at most MaxCells cells
DegenerateOneLine ==
    UNION {{MetroProblem(1, g[1], g[2], j, <<<<s, s>>>>, <<>>) :
                j \in (0..MaxJ) \cup {AmpleJ}, s \in CellSet(g[1], g[2])} :
           g \in Grids(MaxCells)}

\* a line from a cell to itself and a second line between any two cells, on
\* the grids of at most MaxSmallCells cells
DegenerateTwoLines ==
    UNION {{MetroProblem(1, g[1], g[2], 0, <<<<s, s>>, <<s2, t2>>>>, <<>>) :
                s \in CellSet(g[1], g[2]),
                s2 \in CellSet(g[1], g[2]), t2 \in CellSet(g[1], g[2])} :
           g \in Grids(MaxSmallCells)}

InitDegenerate ==
    \E p \in DegenerateOneLine \cup DegenerateTwoLines : InitWith(p)

NextDegenerate ==
    \/ CreateVariables
    \/ EncodeConstraints
    \/ Solve
    \/ Decode
    \/ WalkDone
    \/ ReturnPath
    \/ WriteOutput

SpecDegenerate == InitDegenerate /\ [][NextDegenerate]_vars

----------------------------------------------------------------------------
(* Properties of the encoder, the solver's answers and the decoder *)

\* whether the variable of key is in the map and assigned True
IsTrue(key) == GetVar(key) # 0 /\ GetVar(key) \in assignment

\* the solver's answer has been read
Answered == pc \in {"solved", "walk", "return", "write", "done"}

\* the solver's answer has been read and is an assignment
SatAnswered == Answered /\ satisfiable

\* the cells of the grid whose cell variable of line k is True
TrueCells(k) == {c \in CellSet(N, M) : IsTrue(<<"cell", k, c[1], c[2]>>)}

\* the cell one move in direction d from c
Dest(c, d) == <<c[1] + DX(d), c[2] + DY(d)>>

\* whether the True cells of line k not in seen can be put in a row after c,
\* each reached from the one before it by a True direction variable, the row
\* ending at the line's end
RECURSIVE IsChain(_, _, _)
IsChain(k, c, seen) ==
    IF seen = TrueCells(k)
    THEN c = End(k)
    ELSE \E d \in 0..3 :
            /\ IsTrue(<<"dir", k, c[1], c[2], d>>)
            /\ Dest(c, d) \in TrueCells(k) \ seen
            /\ IsChain(k, Dest(c, d), seen \cup {Dest(c, d)})

\* C1 (flow validity): in every satisfying assignment the True cells of
\* every line form exactly one simple path from the line's start to its end,
\* consecutive cells linked by True direction variables, and no True cell
\* lies off that path.
FlowValidity ==
    SatAnswered =>
        \A k \in 0..(K - 1) :
            /\ Start(k) \in TrueCells(k)
            /\ IsChain(k, Start(k), {Start(k)})

\* some mandatory cell has no cell variable of any line
SomeCellUnreachable ==
    /\ problem.scenario = 2
    /\ problem.P > 0
    /\ \E i \in 1..Len(problem.popular_cells) :
          \A k \in 0..(K - 1) :
              GetVar(<<"cell", k, problem.popular_cells[i][1],
                       problem.popular_cells[i][2]>>) = 0

\* C2 (unreachable mandatory cell forces UNSAT): once the constraints of a
\* scenario-2 problem with a mandatory cell outside every line's box are
\* encoded, the clause list holds an empty clause, and the solver's answer
\* is UNSAT.
UnreachableForcesUnsat ==
    (pc \notin {"start", "created"} /\ SomeCellUnreachable) =>
        /\ \E i \in 1..Len(clauses) : clauses[i] = <<>>
        /\ Answered => ~satisfiable

\* the number of the first i moves that are sym
CountOf(moves, i, sym) == Cardinality({j \in 1..i : moves[j] = sym})

\* the cell reached from the start of line k by the first i moves
PosAfter(k, moves, i) ==
    <<Start(k)[1] + CountOf(moves, i, "R") - CountOf(moves, i, "L"),
      Start(k)[2] + CountOf(moves, i, "D") - CountOf(moves, i, "U")>>

\* C3 (encode/decode round trip): for every satisfying assignment the moves
\* decoded for every line start at the line's start, stay inside the grid
\* and end exactly at the line's end.
RoundTrip ==
    (pc \in {"write", "done"} /\ satisfiable) =>
        \A k \in 0..(K - 1) :
            /\ \A i \in 0..Len(paths[k + 1]) :
                  PosAfter(k, paths[k + 1], i) \in CellSet(N, M)
            /\ PosAfter(k, paths[k + 1], Len(paths[k + 1])) = End(k)

\* the clauses that fix every indicator to its value in assignment
IndicatorUnits ==
    MapSeq(LAMBDA v : IF v \in assignment THEN <<v>> ELSE <<-v>>, args.variables)

\* the assignments to all variables that agree with assignment on the
\* indicators and satisfy the clauses at_most_k_efficient emitted
Extensions == Models(clauses \o IndicatorUnits, var_counter - 1)

\* C4 (atMostK correctness): for n distinct indicators and k >= 0, an
\* assignment to the indicators extends to the auxiliary variables so that
\* every emitted clause is satisfied if and only if at most k indicators are
\* True; with k = 0 every indicator is forced False; with k >= n no clause is
\* emitted and no auxiliary variable is allocated.
AtMostKCorrect ==
    LET n == Len(args.variables)
    IN  /\ (pc = "assigned" /\ args.k >= 0) =>
              ((Extensions # {}) <=> (Cardinality(assignment) <= args.k))
        /\ (pc \in {"counted", "assigned"} /\ args.k = 0) =>
              \A i \in 1..n : \E c \in 1..Len(clauses) : clauses[c] = <<-args.variables[i]>>
        /\ (pc \in {"counted", "assigned"} /\ args.k >= 0 /\ args.k >= n) =>
              /\ clauses = <<>>
              /\ var_counter = n + 1

\* C4: the budget is smaller than the number of indicators, exactly k of
\* them are True, and the assignment extends to the auxiliary variables
AtMostKCorrect_Witness ==
    /\ pc = "assigned"
    /\ 0 < args.k
    /\ args.k < Len(args.variables)
    /\ Cardinality(assignment) = args.k
    /\ var_counter > Len(args.variables) + 1
    /\ Extensions # {}

\* C5 (exclusivity): in no satisfying assignment are the cell variables of
\* two distinct lines True at the same grid cell.
Exclusivity ==
    SatAnswered =>
        \A c \in CellSet(N, M) : \A k1 \in 0..(K - 1), k2 \in 0..(K - 1) :
            k1 # k2 =>
                ~(IsTrue(<<"cell", k1, c[1], c[2]>>) /\ IsTrue(<<"cell", k2, c[1], c[2]>>))

\* C5: a satisfying assignment of a two-line problem in which both lines
\* have a variable at some cell and line 0 occupies it
Exclusivity_Witness ==
    /\ SatAnswered
    /\ K = 2
    /\ \E c \in CellSet(N, M) :
          /\ IsTrue(<<"cell", 0, c[1], c[2]>>)
          /\ GetVar(<<"cell", 1, c[1], c[2]>>) # 0
    /\ \E c \in CellSet(N, M) : IsTrue(<<"cell", 1, c[1], c[2]>>)

\* C6 (turn budget): for a problem with turn budget J >= 0, in every
\* satisfying assignment every line has at most J True turn variables, and
\* at a cell that is not an endpoint of the line the turn variable is True
\* whenever a True direction variable entering the cell and a True direction
\* variable leaving it differ in direction.
TurnBudget ==
    (SatAnswered /\ problem.J >= 0) =>
        \A k \in 0..(K - 1) :
            /\ Cardinality({c \in CellSet(N, M) : IsTrue(<<"turn", k, c[1], c[2]>>)})
                  <= problem.J
            /\ \A c \in CellSet(N, M) \ {Start(k), End(k)} :
                  \A din \in 0..3, dout \in 0..3 :
                      (/\ din # dout
                       /\ IsTrue(<<"dir", k, c[1] - DX(din), c[2] - DY(din), din>>)
                       /\ IsTrue(<<"dir", k, c[1], c[2], dout>>))
                      => IsTrue(<<"turn", k, c[1], c[2]>>)

\* C7 (coverage): in every satisfying assignment of a scenario-2 problem
\* with P > 0, every mandatory cell has a line whose cell variable there is
\* True.
Coverage ==
    (SatAnswered /\ problem.scenario = 2 /\ problem.P > 0) =>
        \A i \in 1..Len(problem.popular_cells) :
            \E k \in 0..(K - 1) :
                IsTrue(<<"cell", k, problem.popular_cells[i][1],
                         problem.popular_cells[i][2]>>)

\* the directions whose variable at the current cell is True and whose
\* destination has not been visited
OpenDirs ==
    {d \in 0..3 : /\ IsTrue(<<"dir", line, current[1], current[2], d>>)
                  /\ Dest(current, d) \notin visited}

\* the first of Right, Left, Down, Up among the directions ds
FirstByPriority(ds) ==
    LET order == <<"R", "L", "D", "U">>
        at(d) == CHOOSE i \in 1..4 : order[i] = Symbol(d)
    IN  CHOOSE d \in ds : \A d2 \in ds : at(d) <= at(d2)

\* C8 (decoder fixed priority and determinism): on any assignment, every
\* iteration of the walk takes the first direction in the order Right, Left,
\* Down, Up whose variable at the current cell is True and whose destination
\* is unvisited, and stops when there is none; and a later run of the
\* decoder on the same files writes the same output as the first.
FixedPriority ==
    [][/\ (pc = "walk" /\ current # End(line)) =>
            IF OpenDirs = {}
            THEN path' = path /\ current' = current /\ pc' = "return"
            ELSE /\ path' = Append(path, Symbol(FirstByPriority(OpenDirs)))
                 /\ current' = Dest(current, FirstByPriority(OpenDirs))
                 /\ visited' = visited \cup {Dest(current, FirstByPriority(OpenDirs))}
       /\ (pc = "write" /\ runs # <<>>) => output' = runs[1]
      ]_vars

\* C8: the decoder has run MaxRuns times on an assignment with two True
\* direction variables at the start cell, and moved from it
FixedPriority_Witness ==
    /\ pc = "done"
    /\ Len(runs) = MaxRuns
    /\ paths[1] # <<>>
    /\ Cardinality({d \in 0..3 :
           IsTrue(<<"dir", 0, Start(0)[1], Start(0)[2], d>>)}) >= 2

\* C9 (unsatisfiable output): when the solver's answer is UNSAT the output
\* file holds exactly K lines, each a bare 0.
UnsatOutput ==
    (pc = "done" /\ ~satisfiable) =>
        /\ Len(output) = K
        /\ \A i \in 1..Len(output) : output[i] = <<"0">>

\* C10 (round trip scenario): on the 3x3 grid with one line from (0,0) to
\* (2,0), turn budget 0 and no mandatory cells, the solver answers with an
\* assignment, every such assignment has exactly the cells (0,0), (1,0),
\* (2,0) True for the line, and the output is the one line R R 0.
RoundTripScenarioHolds ==
    problem = RoundTripScenario =>
        /\ Answered => satisfiable
        /\ SatAnswered => TrueCells(0) = {<<0, 0>>, <<1, 0>>, <<2, 0>>}
        /\ pc = "done" => output = <<<<"R", "R", "0">>>>

\* C10: the scenario has been encoded, solved and decoded, and the output
\* written
RoundTripScenarioHolds_Witness ==
    /\ problem = RoundTripScenario
    /\ pc = "done"
    /\ satisfiable
    /\ output = <<<<"R", "R", "0">>>>

\* C11 (direction implies cell): in every assignment the solver answers with,
\* for every line k and every allocated direction variable ('dir', k, x, y, d),
\* those at cells on the edge of the grid included, a true direction variable
\* has its cell variable ('cell', k, x, y) true.
DirectionImpliesCell ==
    SatAnswered =>
        \A key \in DOMAIN var_map :
            (key[1] = "dir" /\ IsTrue(key)) =>
                IsTrue(<<"cell", key[2], key[3], key[4]>>)

\* the keys new_var has been called with so far
KeysSeen == {args[i].description : i \in 1..Len(args)}

\* the position in the log of the first call with key
FirstUse(key) == CHOOSE i \in 1..Len(args) :
    /\ args[i].description = key
    /\ \A j \in 1..(i - 1) : args[j].description # key

\* C12 (variable allocator): after any sequence of new_var calls, var_map
\* maps the distinct keys seen so far one-to-one onto the ids 1..n, n the
\* number of distinct keys, var_counter is n + 1, and the ids follow the order
\* of first use; every call returns the id of its key, and a call with a key
\* already seen returns that key's existing id and leaves var_map and
\* var_counter as they were.
AllocatorCorrect ==
    [][pc = "alloc" =>
        /\ (DOMAIN var_map)' = KeysSeen'
        /\ {var_map[key] : key \in DOMAIN var_map}' = 1..Cardinality(KeysSeen')
        /\ var_counter' = Cardinality(KeysSeen') + 1
        /\ \A k1, k2 \in KeysSeen' :
            (var_map'[k1] < var_map'[k2]) <=> (FirstUse(k1)' < FirstUse(k2)')
        /\ \A i \in 1..Len(args') :
            args'[i].returned = var_map'[args'[i].description]
        /\ args'[Len(args')].description \in KeysSeen =>
            /\ var_map' = var_map
            /\ var_counter' = var_counter
            /\ args'[Len(args')].returned = var_map[args'[Len(args')].description]
      ]_vars

\* C12: three keys have been allocated and a call has been made with a key
\* that was already seen, after a later key was first used
AllocatorCorrect_Witness ==
    /\ pc = "alloc"
    /\ Cardinality(KeysSeen) = 3
    /\ Len(args) = MaxCalls
    /\ \E i \in 1..Len(args) :
        /\ FirstUse(args[i].description) < i
        /\ \E j \in 1..(i - 1) : FirstUse(args[j].description) = j
                                   /\ j > FirstUse(args[i].description)

\* C13 (decoder walk termination): for any problem, variable map and
\* assignment, satisfying or not, the loop of extract_path_for_line
\* terminates; it ends with the current cell equal to the end cell, or with
\* no eligible direction, or through the safety cap; a move never enters a
\* cell entered before, no move is made once the current cell is the end
\* cell, and at most N*M moves are returned.
WalkTerminates ==
    /\ (pc = "walk") ~> (pc = "return")
    /\ [](pc = "return" =>
            /\ \/ current = End(line)
               \/ EligibleDirs(line, current, visited) = <<>>
               \/ Cardinality(visited) > N * M
            /\ Len(path) <= N * M)
    /\ [][pc = "walk" =>
            /\ current' # current => current' \notin visited
            /\ path' # path => /\ current' # current
                               /\ Len(path') = Len(path) + 1
            /\ current = End(line) => (current' = current /\ path' = path)
         ]_vars

\* C13: a walk has ended through the safety cap, with N*M moves made and the
\* end cell not reached
WalkTerminates_Witness ==
    /\ pc = "return"
    /\ Cardinality(visited) > N * M
    /\ Len(path) = N * M
    /\ current # End(line)
    /\ EligibleDirs(line, current, visited) = <<>>

\* the number of cells of the box of line k
BoxCells(k) ==
    (line_bounds[k][2] - line_bounds[k][1] + 1)
        * (line_bounds[k][4] - line_bounds[k][3] + 1)

\* C14 (degenerate line): when a line's start cell equals its end cell, J >= 0
\* and the line's box has more than one cell, the cell is treated only as a
\* start cell (the clause requiring an outgoing direction is emitted, every
\* incoming direction is forced False, and no clause requires an incoming
\* direction), and the solver answers UNSAT; when the box is the single cell
\* of a 1x1 grid, the one-line problem is satisfiable and the line's only True
\* cell is that cell.
DegenerateLine ==
    \A k \in 0..(K - 1) :
        (Start(k) = End(k) /\ problem.J >= 0 /\ pc \notin {"start", "created"}) =>
            LET s == Start(k)
                cell_var == GetVar(<<"cell", k, s[1], s[2]>>)
                outgoing == Ids(OutDirs(Encoder, k, s[1], s[2]))
                incoming == Ids(InDirs(Encoder, k, s[1], s[2]))
            IN  IF BoxCells(k) > 1
                THEN /\ outgoing # <<>>
                     /\ incoming # <<>>
                     /\ (<<-cell_var>> \o outgoing) \in SeqToSet(clauses)
                     /\ \A i \in 1..Len(incoming) :
                            <<-incoming[i]>> \in SeqToSet(clauses)
                     /\ (<<-cell_var>> \o incoming) \notin SeqToSet(clauses)
                     /\ Answered => ~satisfiable
                ELSE (K = 1 /\ Answered) =>
                         /\ satisfiable
                         /\ TrueCells(k) = {s}

\* C14: a problem whose line starts and ends at the same cell of a grid with
\* more than one cell has been encoded and found unsatisfiable
DegenerateLine_Witness ==
    /\ pc = "done"
    /\ K = 1
    /\ Start(0) = End(0)
    /\ problem.J >= 0
    /\ N * M > 1
    /\ BoxCells(0) > 1
    /\ ~satisfiable

====
